---- MODULE Spec2Model ----
(***************************************************************************)
(* A model of the conversation scheduling code of groupchatv3-ui:         *)
(*   - ConversationOrchestrator (client/components/                        *)
(*     ConversationOrchestrator.tsx): the phased, timer-driven scheduler   *)
(*     with its timer registry activeTimeouts and cleanup();               *)
(*   - the response-order policy determineResponseOrder, also checked on   *)
(*     its own as a pure function;                                         *)
(*   - the session layer of client/pages/Index.tsx: message list, id       *)
(*     counter, participants, save / load / clear-all and its own timers.  *)
(*                                                                         *)
(* JavaScript runs one macrotask at a time and drains the microtask queue  *)
(* before the next one, so every action below is one macrotask: a call     *)
(* from outside or one timer callback, together with all promise           *)
(* continuations it releases.  Random draws are nondeterministic choices.  *)
(* Date.now() is the variable now; it only moves forward (Tick).           *)
(* A timer may fire whenever it is pending, except where the delays in     *)
(* the source order two timers (noted at the guards).                      *)
(***************************************************************************)
EXTENDS Integers, Sequences, FiniteSets, TLC

(***************************************************************************)
(* Bounds                                                                  *)
(***************************************************************************)
\* Date.now() ranges over 0..MaxClock
MaxClock == 1
\* determineResponseOrder is applied to lists of at most MaxSortLen models
MaxSortLen == 3
\* the stream holds at most MaxStreamLen messages
MaxStreamLen == 4

(***************************************************************************)
(* Strings are sequences of one-character strings, so that toLowerCase()   *)
(* and includes() are computed and not assumed.                            *)
(***************************************************************************)
RECURSIVE toLowerCase(_)
toLowerCase(s) ==
  IF s = << >> THEN << >>
  ELSE LET c == Head(s)
           lc == CASE c = "A" -> "a"
                   [] c = "B" -> "b"
                   [] c = "E" -> "e"
                   [] c = "G" -> "g"
                   [] c = "H" -> "h"
                   [] c = "L" -> "l"
                   [] c = "O" -> "o"
                   [] c = "T" -> "t"
                   [] c = "W" -> "w"
                   [] OTHER -> c
       IN  <<lc>> \o toLowerCase(Tail(s))

\* String.prototype.includes: t occurs in s as a contiguous substring
includes(s, t) ==
  \E k \in 0..(Len(s) - Len(t)) :
     \A j \in 1..Len(t) : s[k + j] = t[j]

(***************************************************************************)
(* Personalities (the constructor argument models) and canned content.     *)
(* A content line is abbreviated to a key word of the sentence, and the    *)
(* key words and triggers are written in mixed case so that the case       *)
(* folding of shouldCreateSubResponse decides the match.                   *)
(***************************************************************************)
\* an absent parentId (ids are tuples, so the absent one is the empty tuple)
NoParent == << >>

Personality ==
  [ gpt4   |-> [id |-> "gpt4",   interruptiveness |-> "low",
                subResponseTriggers |-> {<<"d","a","t","a">>}],
    claude |-> [id |-> "claude", interruptiveness |-> "high",
                subResponseTriggers |-> {<<"L","o","g">>}],
    gemini |-> [id |-> "gemini", interruptiveness |-> "medium",
                subResponseTriggers |-> {<<"E","T","H">>}],
    custom |-> [id |-> "custom", interruptiveness |-> "medium",
                subResponseTriggers |-> {}],
    constructor |-> [id |-> "constructor", interruptiveness |-> "low",
                     subResponseTriggers |-> {}] ]

\* the value undefined where a string is expected
undefined == <<"(undefined)">>

\* the keys every object literal inherits from Object.prototype
InheritedKeys == {"constructor"}

\* getResponsesByPersonality and the pick of lines 303-304: the response
\* bank (one line stands for the four of each personality), with the
\* fallback line.  responseBank[model.id] on an inherited key returns the
\* inherited member, which is truthy, so the fallback is not taken, and
\* indexing that member with a number gives undefined.
getResponsesByPersonality(m) ==
  CASE m = "gpt4"   -> { <<"L","O","G","i","c">> }
    [] m = "claude" -> { <<"E","t","h","i","c">> }
    [] m = "gemini" -> { <<"B","o","x">> }
    [] m \in InheritedKeys -> { undefined }
    [] OTHER        -> { <<"T","h","a","t">> }

\* generateSubResponse draws from five generic lines and the personal bank
SubResponseLines == { <<"A","c","t">> }

\* generateFollowUpMessage draws from five generic lines
FollowUpLines == { <<"O","h">> }

(***************************************************************************)
(* determineResponseOrder                                                  *)
(***************************************************************************)
Score(level) == IF level = "high" THEN 3 ELSE IF level = "medium" THEN 2 ELSE 1

IsConfrontational(md) == md = "debate" \/ md = "devils-advocate"

\* the comparator of the debate branch: negative when a goes before b
CompareDebate(a, b) == Score(b.interruptiveness) - Score(a.interruptiveness)

\* Array.prototype.sort is a stable sort (ECMAScript 2019): an element is
\* placed behind every element that does not compare greater than it.
RECURSIVE InsertStable(_, _)

\* an insertion that puts an element in front of its equals
RECURSIVE InsertUnstable(_, _)
InsertUnstable(x, sorted) ==
  IF sorted = << >> THEN <<x>>
  ELSE IF Score(Head(sorted).interruptiveness) > Score(x.interruptiveness)
       THEN <<Head(sorted)>> \o InsertUnstable(x, Tail(sorted))
       ELSE <<x>> \o sorted

InsertStable(x, sorted) ==
  IF sorted = << >> THEN <<x>>
  ELSE IF CompareDebate(Head(sorted), x) <= 0
       THEN <<Head(sorted)>> \o InsertStable(x, Tail(sorted))
       ELSE <<x>> \o sorted

RECURSIVE StableSort(_)
StableSort(s) ==
  IF s = << >> THEN << >>
  ELSE InsertStable(s[Len(s)], StableSort(SubSeq(s, 1, Len(s) - 1)))

SeqPermutations(s) ==
  { p \in [1..Len(s) -> {s[k] : k \in 1..Len(s)}] :
      \A k \in 1..Len(s) : \E j \in 1..Len(s) : p[j] = s[k] }

\* the orders a call can return: one in a confrontational mode, any
\* permutation under the random comparator of the other modes
determineResponseOrder(ms, md) ==
  IF IsConfrontational(md) THEN { StableSort(ms) } ELSE SeqPermutations(ms)

(***************************************************************************)
(* State                                                                   *)
(***************************************************************************)
VARIABLES
  \* ---- ConversationOrchestrator (one object; a turn is one call of
  \* ---- simulateNaturalConversation, and its locals are indexed by turn)
  models,             \* this.models: the registry, a sequence of model ids
  throwsFor,          \* the registry entries for which generateResponse throws
  activeTimeouts,     \* this.activeTimeouts: the registered timer handles
  timers,             \* the event loop's pending timers
  now,                \* Date.now()
  turnsAllowed,       \* how many turns the caller begins on this object
  pc,                 \* where each simulateNaturalConversation call stands
  activeModels,       \* its local activeModels (ids, in registry order)
  mode,               \* its argument mode
  thinkingResolved,   \* the thinking promises that have resolved
  responseOrder,      \* its local responseOrder
  i,                  \* its loop index (1-based)
  round,              \* simulateFollowUpInteractions: round
  continuationChance, \* simulateFollowUpInteractions: chance, in 1/10000
  log,                \* the callback calls made so far, in order
  cleaned             \* cleanup() has been called since the turn began

VARIABLES
  \* ---- the session layer, Index.tsx (sessionData, display statistics, is
  \* ---- left out)
  modelStatus,           \* models: the status of each participant
  conversationMessages,  \* the message list
  isProcessing,
  conversationSettings,
  messageIdCounter,      \* messageIdCounter.current
  localStorage,          \* the item "groupchat-conversation", or NoItem
  sessionTimers,         \* the pending timers set by initiateAIConversation
  turn,                  \* what the closures of each submitted turn captured
  sends,                 \* how many prompts have been submitted
  sendsAllowed,          \* how many prompts the user submits at most
  thinkingEmitted,       \* placeholders added so far, per turn
  resetPending           \* handleClearAll ran and nothing was sent or loaded since

sessVars == <<modelStatus, conversationMessages, isProcessing,
              conversationSettings, messageIdCounter, localStorage,
              sessionTimers, turn, sends, sendsAllowed, thinkingEmitted,
              resetPending>>

VARIABLES
  \* ---- determineResponseOrder on its own
  sortInput,    \* the argument models: a list of personalities
  sortMode,     \* the argument mode
  sortResults   \* what the calls made so far have returned

sortVars == <<sortInput, sortMode, sortResults>>

VARIABLES
  \* ---- ThreadedConversationStream: the message-tree builder
  streamMessages,  \* [...messages, ...typingMessages], what a render is given
  messageTree,     \* the forest the last render built
  delivered        \* the ids of the messages the stream has been given so far

treeVars == <<streamMessages, messageTree, delivered>>

VARIABLES
  \* ---- the delay of a primary response, computed on its own
  delayIndex,      \* the loop index i (orchestrator) or the round (session)
  delayDraw,       \* the value Math.random() returns, in thousandths
  gapDelays,       \* the delays the orchestrator has computed, by complexity
  responseDelays   \* the delays the session layer has computed

delayVars == <<delayIndex, delayDraw, gapDelays, responseDelays>>

orchVars == <<models, throwsFor, activeTimeouts, timers, now, turnsAllowed, pc,
              activeModels, mode, thinkingResolved, responseOrder, i, round,
              continuationChance, log, cleaned>>

ModelIds == {"gpt4", "claude", "gemini"}
Modes == {"collaborative", "debate"}
TurnIds == {1, 2}

NoMsg == [id |-> << >>, modelId |-> "none", content |-> << >>]

\* a timer handle: the turn it belongs to, the callback's kind and what its
\* closure captured
Timer(k, kind, m, r, parent) ==
  [turn |-> k, kind |-> kind, model |-> m, round |-> r, parent |-> parent]

Range(s) == {s[n] : n \in 1..Len(s)}

RECURSIVE FilterSeq(_, _)
FilterSeq(s, keep) ==
  IF s = << >> THEN << >>
  ELSE IF Head(s) \in keep THEN <<Head(s)>> \o FilterSeq(Tail(s), keep)
       ELSE FilterSeq(Tail(s), keep)

PersonalitiesOf(ids) == [n \in 1..Len(ids) |-> Personality[ids[n]]]
IdsOf(ps) == [n \in 1..Len(ps) |-> ps[n].id]

\* one callback call of turn k: via names the callback, arg is
\* onSubResponseCreated's second argument
Call(k, via, msg, arg) == [turn |-> k, via |-> via, msg |-> msg, arg |-> arg]

\* lines 74-88
ThinkingMessage(m, t) ==
  [id |-> <<"thinking", m, t>>, parentId |-> NoParent, modelId |-> m,
   content |-> << >>, type |-> "thinking", isComplete |-> FALSE,
   isApproved |-> "undefined"]

\* lines 306-317, for the line picked from the bank
generateResponse(m, line, t) ==
  [id |-> <<"msg", m, t>>, parentId |-> NoParent, modelId |-> m,
   content |-> line, type |-> "message", isComplete |-> TRUE,
   isApproved |-> "undefined"]


\* a sub-response that names its parent's author in the place of its id
generateSubResponseByAuthor(m, parent, line, t) ==
  [id |-> <<"sub", m, t>>, parentId |-> <<"msg", parent.modelId>>,
   modelId |-> m, content |-> line, type |-> "sub-response",
   isComplete |-> TRUE, isApproved |-> "false"]

\* a sub-response that is born approved
generateSubResponseApproved(m, parent, line, t) ==
  [id |-> <<"sub", m, t>>, parentId |-> parent.id, modelId |-> m,
   content |-> line, type |-> "sub-response", isComplete |-> TRUE,
   isApproved |-> "true"]

\* lines 340-351
generateSubResponse(m, parent, line, t) ==
  [id |-> <<"sub", m, t>>, parentId |-> parent.id, modelId |-> m,
   content |-> line, type |-> "sub-response", isComplete |-> TRUE,
   isApproved |-> "false"]

\* lines 366-375
generateFollowUpMessage(m, line, t) ==
  [id |-> <<"followup", m, t>>, parentId |-> NoParent, modelId |-> m,
   content |-> line, type |-> "message", isComplete |-> TRUE,
   isApproved |-> "undefined"]

\* a test that every parent passes
shouldCreateSubResponseAlways(m, parentMessage) == TRUE

\* lines 218-227
shouldCreateSubResponse(m, parentMessage) ==
  LET content == toLowerCase(parentMessage.content)
  IN  \E trigger \in Personality[m].subResponseTriggers :
         includes(content, toLowerCase(trigger))

(***************************************************************************)
(* ConversationOrchestrator: the actions                                   *)
(***************************************************************************)
Pending(k, kind) == {t \in timers : t.turn = k /\ t.kind = kind}


\* the phase-3 timer set when the loop begins, not after it
PrimaryStepFollowUpsFirst(k, order, n) ==
  IF n <= Len(order)
  THEN [set |-> {Timer(k, "gap", order[n], 0, NoMsg)}
                  \cup (IF n = 1 THEN {Timer(k, "phase3", "none", 0, NoMsg)}
                        ELSE {}),
        reg |-> {Timer(k, "gap", order[n], 0, NoMsg)}, pc |-> "primary"]
  ELSE [set |-> IF order = << >> THEN {Timer(k, "phase3", "none", 0, NoMsg)}
                ELSE {},
        reg |-> {}, pc |-> "resolved"]

\* the loop walking responseOrder from its end
PrimaryStepBackwards(k, order, n) ==
  IF n <= Len(order)
  THEN [set |-> {Timer(k, "gap", order[Len(order) + 1 - n], 0, NoMsg)},
        reg |-> {Timer(k, "gap", order[Len(order) + 1 - n], 0, NoMsg)},
        pc |-> "primary"]
  ELSE [set |-> {Timer(k, "phase3", "none", 0, NoMsg)},
        reg |-> {}, pc |-> "resolved"]

\* lines 107-148, entered with the loop index n: the loop schedules the gap
\* timer of responseOrder[n] and registers it, or, past the end, leaves the
\* loop, sets the phase-3 timer (lines 151-160, not registered) and returns
PrimaryStep(k, order, n) ==
  IF n <= Len(order)
  THEN [set |-> {Timer(k, "gap", order[n], 0, NoMsg)},
        reg |-> {Timer(k, "gap", order[n], 0, NoMsg)}, pc |-> "primary"]
  ELSE [set |-> {Timer(k, "phase3", "none", 0, NoMsg)},
        reg |-> {}, pc |-> "resolved"]

\* lines 50-105: the call itself.  It filters the registry, creates and
\* registers one stagger timer per active model and awaits the thinking
\* promises; with no active model Promise.all([]) resolves at once.
simulateNaturalConversation(k, activeModelIds, md) ==
  /\ pc[k] = "idle"
  /\ k <= turnsAllowed
  /\ \A j \in TurnIds : j < k => pc[j] # "idle"
  /\ LET am == FilterSeq(models, activeModelIds)
         stagger == {Timer(k, "stagger", m, 0, NoMsg) : m \in Range(am)}
         step == PrimaryStep(k, << >>, 1)
     IN  /\ activeModels' = [activeModels EXCEPT ![k] = am]
         /\ mode' = [mode EXCEPT ![k] = md]
         /\ IF am = << >>
            THEN /\ timers' = timers \cup step.set
                 /\ activeTimeouts' = activeTimeouts
                 /\ pc' = [pc EXCEPT ![k] = step.pc]
            ELSE /\ timers' = timers \cup stagger
                 /\ activeTimeouts' = activeTimeouts \cup stagger
                 /\ pc' = [pc EXCEPT ![k] = "thinking"]
  /\ UNCHANGED <<sessVars, sortVars, treeVars, delayVars>>
  /\ UNCHANGED <<models, throwsFor, now, turnsAllowed, thinkingResolved, responseOrder,
                 i, round, continuationChance, log, cleaned>>

\* lines 73-98: a stagger timer fires: the placeholder is emitted and the
\* completion timer is created and registered
StaggerFires(t) ==
  /\ t \in timers
  /\ t.kind = "stagger"
  /\ LET c == Timer(t.turn, "complete", t.model, 0, NoMsg)
     IN  /\ log' = Append(log, Call(t.turn, "onMessageUpdate",
                                    ThinkingMessage(t.model, now), NoParent))
         /\ timers' = (timers \ {t}) \cup {c}
         /\ activeTimeouts' = activeTimeouts \cup {c}
  /\ UNCHANGED <<sessVars, sortVars, treeVars, delayVars>>
  /\ UNCHANGED <<models, throwsFor, now, turnsAllowed, pc, activeModels, mode,
                 thinkingResolved, responseOrder, i, round,
                 continuationChance, cleaned>>


\* Promise.race in the place of Promise.all
anyThinkingResolved(done, active) == done # {}

\* line 105: Promise.all resolves once every thinking promise has resolved
allThinkingResolved(done, active) == done = Range(active)

\* lines 93-95 and 105-148: a completion timer fires and resolves its
\* promise; when it was the last one, Promise.all resolves and the function
\* goes on to compute the response order and to schedule the first response
CompleteFires(t) ==
  /\ t \in timers
  /\ t.kind = "complete"
  /\ LET k == t.turn
         done == thinkingResolved[k] \cup {t.model}
     IN  /\ thinkingResolved' = [thinkingResolved EXCEPT ![k] = done]
         /\ IF allThinkingResolved(done, activeModels[k])
            THEN \E order \in determineResponseOrder(
                                PersonalitiesOf(activeModels[k]), mode[k]) :
                   LET step == PrimaryStep(k, IdsOf(order), 1)
                   IN  /\ responseOrder' =
                            [responseOrder EXCEPT ![k] = IdsOf(order)]
                       /\ i' = [i EXCEPT ![k] = 1]
                       /\ timers' = (timers \ {t}) \cup step.set
                       /\ activeTimeouts' = activeTimeouts \cup step.reg
                       /\ pc' = [pc EXCEPT ![k] = step.pc]
            ELSE /\ timers' = timers \ {t}
                 /\ UNCHANGED <<responseOrder, i, activeTimeouts, pc>>
  /\ UNCHANGED <<sessVars, sortVars, treeVars, delayVars>>
  /\ UNCHANGED <<models, throwsFor, now, turnsAllowed, activeModels, mode, round,
                 continuationChance, log, cleaned>>

\* lines 121-144 and the loop's next pass: the gap timer of responseOrder[i]
\* fires: the response is generated and emitted, the timer that will run
\* handleSubResponses is set (not registered), the promise resolves and the
\* loop moves on
GapFires(t) ==
  /\ t \in timers
  /\ t.kind = "gap"
  /\ LET k == t.turn
         m == t.model
     IN  IF m \in throwsFor
         THEN \* line 122: the awaited generateResponse rejects, and no
              \* handler catches it: the rest of the callback (lines 130-143)
              \* is skipped, resolve() included
              /\ timers' = timers \ {t}
              /\ UNCHANGED <<activeTimeouts, pc, i, log>>
         ELSE /\ \E line \in getResponsesByPersonality(m) :
                   LET response == generateResponse(m, line, now)
                       parent == [id |-> response.id, modelId |-> m,
                                  content |-> line]
                       step == PrimaryStep(k, responseOrder[k], i[k] + 1)
                   IN  /\ log' = Append(log, Call(k, "onMessageUpdate",
                                                  response, NoParent))
                       /\ timers' = ((timers \ {t})
                                       \cup {Timer(k, "subsched", m, 0, parent)})
                                       \cup step.set
                       /\ activeTimeouts' = activeTimeouts \cup step.reg
                       /\ pc' = [pc EXCEPT ![k] = step.pc]
              /\ i' = [i EXCEPT ![k] = i[k] + 1]
  /\ UNCHANGED <<sessVars, sortVars, treeVars, delayVars>>
  /\ UNCHANGED <<models, throwsFor, now, turnsAllowed, activeModels, mode,
                 thinkingResolved, responseOrder, round, continuationChance,
                 cleaned>>

\* lines 191-216: handleSubResponses runs from its timer: every other active
\* model that draws below subResponseChance and has a matching trigger gets
\* a sub-response timer (not registered)
handleSubResponses(t) ==
  /\ t \in timers
  /\ t.kind = "subsched"
  /\ LET otherModels ==
           {m \in Range(activeModels[t.turn]) : m # t.parent.modelId}
         willing == {m \in otherModels : shouldCreateSubResponse(m, t.parent)}
     IN  \E drawn \in SUBSET willing :
           timers' = (timers \ {t})
                       \cup {Timer(t.turn, "sub", m, 0, t.parent) : m \in drawn}
  /\ UNCHANGED <<sessVars, sortVars, treeVars, delayVars>>
  /\ UNCHANGED <<models, throwsFor, activeTimeouts, now, turnsAllowed, pc, activeModels,
                 mode, thinkingResolved, responseOrder, i, round,
                 continuationChance, log, cleaned>>

\* lines 207-213: a sub-response timer fires
SubResponseFires(t) ==
  /\ t \in timers
  /\ t.kind = "sub"
  /\ \E line \in SubResponseLines :
       log' = Append(log, Call(t.turn, "onSubResponseCreated",
                               generateSubResponse(t.model, t.parent, line, now),
                               t.parent.id))
  /\ timers' = timers \ {t}
  /\ UNCHANGED <<sessVars, sortVars, treeVars, delayVars>>
  /\ UNCHANGED <<models, throwsFor, activeTimeouts, now, turnsAllowed, pc, activeModels,
                 mode, thinkingResolved, responseOrder, i, round,
                 continuationChance, cleaned>>

\* a pass that stops at a floor of 0.05 and counts no rounds
FollowUpPassLowFloor(k, cc, r, drawn) ==
  IF cc > 500
  THEN [set |-> {Timer(k, "followup", m, r, NoMsg) : m \in drawn}
                  \cup {Timer(k, "wait", "none", r, NoMsg)},
        cc |-> (cc * 6) \div 10, round |-> r + 1]
  ELSE [set |-> {}, cc |-> cc, round |-> r]

\* a pass that stops at a floor of 0.2
FollowUpPassHighFloor(k, cc, r, drawn) ==
  IF cc > 2000 /\ r < 3
  THEN [set |-> {Timer(k, "followup", m, r, NoMsg) : m \in drawn}
                  \cup {Timer(k, "wait", "none", r, NoMsg)},
        cc |-> (cc * 6) \div 10, round |-> r + 1]
  ELSE [set |-> {}, cc |-> cc, round |-> r]

\* lines 238-255: one pass of the while loop of simulateFollowUpInteractions
\* entered with chance cc and round r: each model that draws below cc gets a
\* follow-up timer, then the 5000 ms wait timer is set; none is registered
FollowUpPass(k, cc, r, drawn) ==
  IF cc > 1000 /\ r < 3
  THEN [set |-> {Timer(k, "followup", m, r, NoMsg) : m \in drawn}
                  \cup {Timer(k, "wait", "none", r, NoMsg)},
        cc |-> (cc * 6) \div 10, round |-> r + 1]
  ELSE [set |-> {}, cc |-> cc, round |-> r]

\* lines 239-240: each model of the turn draws against the chance on its own.
\* Of the outcomes of a pass, those in which at most one model follows up
\* are followed: a second follow-up timer in a round adds another run of the
\* same callback (FollowUpFires) and no other step.
FollowUpDraws(active) == {d \in SUBSET Range(active) : Cardinality(d) <= 1}

\* lines 151-160 and 229-255: the phase-3 timer fires and
\* simulateFollowUpInteractions starts.  Its delay (3000 ms or more) is above
\* that of every handleSubResponses timer of the turn (below 3000 ms, set no
\* later), so it fires after them.
Phase3Fires(t) ==
  /\ t \in timers
  /\ t.kind = "phase3"
  /\ Pending(t.turn, "subsched") = {}
  /\ \E drawn \in FollowUpDraws(activeModels[t.turn]) :
       LET pass == FollowUpPass(t.turn, 4000, 0, drawn)
       IN  /\ timers' = (timers \ {t}) \cup pass.set
           /\ continuationChance' =
                [continuationChance EXCEPT ![t.turn] = pass.cc]
           /\ round' = [round EXCEPT ![t.turn] = pass.round]
  /\ UNCHANGED <<sessVars, sortVars, treeVars, delayVars>>
  /\ UNCHANGED <<models, throwsFor, activeTimeouts, now, turnsAllowed, pc, activeModels,
                 mode, thinkingResolved, responseOrder, i, log, cleaned>>

\* the follow-up timers of an earlier round of the turn that are still
\* pending: a timer of round r is due less than 6000 ms after that round
\* began, anything set in a later round at least 7000 ms after it
EarlierFollowUps(k, r) == {t \in Pending(k, "followup") : t.round < r}

\* line 254 and the next pass of the loop: the wait timer fires
WaitFires(t) ==
  /\ t \in timers
  /\ t.kind = "wait"
  /\ EarlierFollowUps(t.turn, t.round) = {}
  /\ \E drawn \in FollowUpDraws(activeModels[t.turn]) :
       LET pass == FollowUpPass(t.turn, continuationChance[t.turn],
                                round[t.turn], drawn)
       IN  /\ timers' = (timers \ {t}) \cup pass.set
           /\ continuationChance' =
                [continuationChance EXCEPT ![t.turn] = pass.cc]
           /\ round' = [round EXCEPT ![t.turn] = pass.round]
  /\ UNCHANGED <<sessVars, sortVars, treeVars, delayVars>>
  /\ UNCHANGED <<models, throwsFor, activeTimeouts, now, turnsAllowed, pc, activeModels,
                 mode, thinkingResolved, responseOrder, i, log, cleaned>>

\* lines 243-246: a follow-up timer fires
FollowUpFires(t) ==
  /\ t \in timers
  /\ t.kind = "followup"
  /\ EarlierFollowUps(t.turn, t.round) = {}
  /\ \E line \in FollowUpLines :
       log' = Append(log, Call(t.turn, "onMessageUpdate",
                               generateFollowUpMessage(t.model, line, now),
                               NoParent))
  /\ timers' = timers \ {t}
  /\ UNCHANGED <<sessVars, sortVars, treeVars, delayVars>>
  /\ UNCHANGED <<models, throwsFor, activeTimeouts, now, turnsAllowed, pc, activeModels,
                 mode, thinkingResolved, responseOrder, i, round,
                 continuationChance, cleaned>>


\* a cleanup that clears one registered timer per call
cleanupTimersOne(pending, registry) ==
  IF pending \cap registry = {} THEN pending
  ELSE pending \ {CHOOSE t \in pending \cap registry : TRUE}

\* lines 447-450: clearTimeout on every registered handle (a no-op for one
\* that has fired or was cleared), then the registry is emptied
cleanupTimers(pending, registry) == pending \ registry

cleanupRegistry(registry) == {}

cleanup ==
  /\ timers' = cleanupTimers(timers, activeTimeouts)
  /\ activeTimeouts' = cleanupRegistry(activeTimeouts)
  /\ cleaned' = [k \in TurnIds |-> cleaned[k] \/ pc[k] # "idle"]
  /\ UNCHANGED <<sessVars, sortVars, treeVars, delayVars>>
  /\ UNCHANGED <<models, throwsFor, now, turnsAllowed, pc, activeModels, mode,
                 thinkingResolved, responseOrder, i, round,
                 continuationChance, log>>

\* a millisecond passes
Tick ==
  /\ now < MaxClock
  /\ now' = now + 1
  /\ UNCHANGED <<sessVars, sortVars, treeVars, delayVars>>
  /\ UNCHANGED <<models, throwsFor, activeTimeouts, timers, turnsAllowed, pc,
                 activeModels, mode, thinkingResolved, responseOrder, i,
                 round, continuationChance, log, cleaned>>

\* a new orchestrator over the given registry, on which the caller will
\* begin the given number of turns; failing names the registry entries whose
\* creativity accessor throws when generateDetailedReasoning reads it
OrchInitFailing(registry, turns, failing) ==
  /\ models = registry
  /\ throwsFor = failing
  /\ activeTimeouts = {}
  /\ timers = {}
  /\ now = 0
  /\ turnsAllowed = turns
  /\ pc = [k \in TurnIds |-> "idle"]
  /\ activeModels = [k \in TurnIds |-> << >>]
  /\ mode = [k \in TurnIds |-> "collaborative"]
  /\ thinkingResolved = [k \in TurnIds |-> {}]
  /\ responseOrder = [k \in TurnIds |-> << >>]
  /\ i = [k \in TurnIds |-> 0]
  /\ round = [k \in TurnIds |-> 0]
  /\ continuationChance = [k \in TurnIds |-> 0]
  /\ log = << >>
  /\ cleaned = [k \in TurnIds |-> FALSE]

\* a registry of well-behaved personalities
OrchInit(registry, turns) == OrchInitFailing(registry, turns, {})

(***************************************************************************)
(* The session layer (client/pages/Index.tsx)                              *)
(***************************************************************************)
\* initialModels, in order
initialModels == <<"gpt4", "claude", "gemini">>

NoItem == [present |-> FALSE]

\* String.prototype.trim over the two characters prompts are made of here
RECURSIVE trimStart(_)
trimStart(s) ==
  IF s # << >> /\ Head(s) = " " THEN trimStart(Tail(s)) ELSE s

RECURSIVE trimEnd(_)
trimEnd(s) ==
  IF s # << >> /\ s[Len(s)] = " " THEN trimEnd(SubSeq(s, 1, Len(s) - 1)) ELSE s

trim(s) == trimEnd(trimStart(s))

\* what the user may type
Prompts == { << >>, <<" ">>, <<"h", " ">> }

\* generateMessageId, line 108: the id made from the incremented counter
generateMessageId(counter) == <<"msg", counter + 1>>

\* a message of the session layer; referencesTo {} stands for undefined,
\* timestamp records whether the field holds a Date or (after JSON) a string
Message(id, m, type, complete, refs) ==
  [id |-> id, modelId |-> m, type |-> type, isComplete |-> complete,
   referencesTo |-> refs, timestamp |-> "Date"]

\* a message put in front of the list
addMessageFirst(prev, message) == <<message>> \o prev

\* lines 110-112: the updater [...prev, message]
addMessage(prev, message) == Append(prev, message)

\* the models that are not inactive, in list order (lines 140 and 508)
activeOf(status) ==
  FilterSeq(initialModels, {m \in Range(initialModels) : status[m] # "inactive"})

\* a timer of turn k
SessionTimer(k, kind, m, r, target) ==
  [turn |-> k, kind |-> kind, model |-> m, round |-> r, target |-> target]

NoTarget == << >>

\* lines 281-284 and 305-306 of generateAIResponse: the ids, among the last
\* five messages of the history the closure holds, of the messages of type
\* "message" by somebody else
referencedMessages(history, m) ==
  LET first == IF Len(history) > 5 THEN Len(history) - 4 ELSE 1
  IN  { history[n].id : n \in { j \in first..Len(history) :
                                  /\ history[j].modelId # m
                                  /\ history[j].type = "message" } }

\* JSON.stringify followed by JSON.parse on a message: a Date comes back as
\* a string, everything else modelled here as it was
jsonRoundTrip(msgs) ==
  [n \in 1..Len(msgs) |-> [msgs[n] EXCEPT !.timestamp = "string"]]


\* thinking timers set whatever showThinking says
thinkingTimersAlways(k, active, settings) ==
  {SessionTimer(k, "thinking", active[n], n - 1, NoTarget)
     : n \in 1..Len(active)}

\* lines 168-189: the thinking timers of turn k, one per active model when
\* showThinking is on; round holds the index
thinkingTimers(k, active, settings) ==
  IF settings.showThinking
  THEN {SessionTimer(k, "thinking", active[n], n - 1, NoTarget)
          : n \in 1..Len(active)}
  ELSE {}

\* lines 51-56 of EnhancedMissionControl.tsx, lines 114-158 and the
\* synchronous part of initiateAIConversation (lines 160-241): a submission
\* that passes handleSend's test appends the user message, marks the active
\* models as thinking and sets every timer of the turn; round 0 is answered
\* by every active model, rounds 1 and 2 by those that draw above 0.4.
\* isProcessing is set and, initiateAIConversation having nothing to wait
\* for, cleared again before the next macrotask.
handleSend(message, later1, later2) ==
  /\ sends < sendsAllowed
  /\ trim(message) # << >>
  /\ activeOf(modelStatus) # << >>
  /\ LET k == sends + 1
         active == activeOf(modelStatus)
         userMessage == Message(generateMessageId(messageIdCounter), "user",
                                "message", TRUE, {})
         thinking == thinkingTimers(k, active, conversationSettings)
         responding(r) == IF r = 0 THEN Range(active)
                          ELSE IF r = 1 THEN later1 ELSE later2
         responses == {SessionTimer(k, "response", m, r, NoTarget)
                         : m \in responding(0), r \in {0}}
                      \cup {SessionTimer(k, "response", m, 1, NoTarget)
                              : m \in responding(1)}
                      \cup {SessionTimer(k, "response", m, 2, NoTarget)
                              : m \in responding(2)}
     IN  /\ later1 \subseteq Range(active)
         /\ later2 \subseteq Range(active)
         /\ messageIdCounter' = messageIdCounter + 1
         /\ conversationMessages' =
              addMessage(conversationMessages, userMessage)
         /\ modelStatus' = [m \in Range(initialModels) |->
                              IF m \in Range(active) THEN "thinking"
                              ELSE modelStatus[m]]
         /\ turn' = [turn EXCEPT ![k] =
                       [activeModels |-> active,
                        settings |-> conversationSettings,
                        history |-> conversationMessages]]
         /\ sessionTimers' = sessionTimers \cup thinking \cup responses
         /\ sends' = k
  /\ isProcessing' = FALSE
  /\ resetPending' = FALSE
  /\ UNCHANGED <<conversationSettings, localStorage, sendsAllowed,
                 thinkingEmitted>>
  /\ UNCHANGED <<orchVars, sortVars, treeVars, delayVars>>

\* lines 170-187: a thinking timer fires.  The delays are index * 500, so
\* the timers of one turn fire in index order.
ThinkingFires(t) ==
  /\ t \in sessionTimers
  /\ t.kind = "thinking"
  /\ \A u \in sessionTimers :
       (u.kind = "thinking" /\ u.turn = t.turn) => u.round >= t.round
  /\ conversationMessages' =
       addMessage(conversationMessages,
              Message(generateMessageId(messageIdCounter), t.model,
                      "thinking", FALSE, {}))
  /\ messageIdCounter' = messageIdCounter + 1
  /\ thinkingEmitted' = [thinkingEmitted EXCEPT ![t.turn] = @ + 1]
  /\ sessionTimers' = sessionTimers \ {t}
  /\ UNCHANGED <<modelStatus, isProcessing, conversationSettings,
                 localStorage, turn, sends, sendsAllowed, resetPending>>
  /\ UNCHANGED <<orchVars, sortVars, treeVars, delayVars>>

\* a status update that changes nothing
setActiveNever(status, m) == status

\* lines 217-221: the updater that sets the model's status to active
setActive(status, m) == [status EXCEPT ![m] = "active"]

\* an interruption test that lets every round be interrupted
interruptionWantedAnyRound(settings, draw, r) ==
  settings.allowInterruptions /\ draw

\* line 225: settings.allowInterruptions && Math.random() > 0.7 && round < 2
interruptionWanted(settings, draw, r) ==
  settings.allowInterruptions /\ draw /\ r < 2

\* lines 206-238: a response timer fires: the response is added, the model
\* is set to active and, in rounds 0 and 1 and on a draw above 0.7, the
\* interruption timer is set.  A response delay is base + [0, 2000) +
\* round * 1000 with one base per turn, so a round-2 timer fires after the
\* round-0 timers of its turn; the first thinking timer has delay 0 and a
\* response timer at least 300.
ResponseFires(t, interrupt) ==
  /\ t \in sessionTimers
  /\ t.kind = "response"
  /\ \A u \in sessionTimers :
       u.turn = t.turn =>
         /\ ~(u.kind = "thinking" /\ u.round = 0)
         /\ ~(u.kind = "response" /\ u.round = 0 /\ t.round = 2)
  /\ LET response == Message(generateMessageId(messageIdCounter), t.model,
                             "message", TRUE,
                             referencedMessages(turn[t.turn].history, t.model))
         wanted == interruptionWanted(turn[t.turn].settings, interrupt,
                                      t.round)
     IN  /\ conversationMessages' =
              addMessage(conversationMessages, response)
         /\ sessionTimers' =
              (sessionTimers \ {t})
                \cup (IF wanted
                      THEN {SessionTimer(t.turn, "interruption", t.model,
                                         t.round, response.id)}
                      ELSE {})
  /\ messageIdCounter' = messageIdCounter + 1
  /\ modelStatus' = setActive(modelStatus, t.model)
  /\ UNCHANGED <<isProcessing, conversationSettings, localStorage, turn,
                 sends, sendsAllowed, thinkingEmitted, resetPending>>
  /\ UNCHANGED <<orchVars, sortVars, treeVars, delayVars>>

\* lines 227-233 and 366-386: an interruption timer fires: find() takes the
\* first other model of the turn that draws above 0.5, if any, and
\* handleInterruption adds its interruption of the response
InterruptionFires(t, interrupter) ==
  /\ t \in sessionTimers
  /\ t.kind = "interruption"
  /\ interrupter \in (Range(turn[t.turn].activeModels) \ {t.model})
                       \cup {"none"}
  /\ IF interrupter = "none"
     THEN UNCHANGED <<conversationMessages, messageIdCounter>>
     ELSE /\ conversationMessages' =
               addMessage(conversationMessages,
                          Message(generateMessageId(messageIdCounter),
                                  interrupter, "interruption", TRUE,
                                  {t.target}))
          /\ messageIdCounter' = messageIdCounter + 1
  /\ sessionTimers' = sessionTimers \ {t}
  /\ UNCHANGED <<modelStatus, isProcessing, conversationSettings,
                 localStorage, turn, sends, sendsAllowed, thinkingEmitted,
                 resetPending>>
  /\ UNCHANGED <<orchVars, sortVars, treeVars, delayVars>>

\* lines 435-446
handleToggleModel(m) ==
  /\ modelStatus' = [modelStatus EXCEPT ![m] =
                       IF @ = "inactive" THEN "active" ELSE "inactive"]
  /\ UNCHANGED <<conversationMessages, isProcessing, conversationSettings,
                 messageIdCounter, localStorage, sessionTimers, turn, sends,
                 sendsAllowed, thinkingEmitted, resetPending>>
  /\ UNCHANGED <<orchVars, sortVars, treeVars, delayVars>>

\* lines 469-481
handleSaveConversation ==
  /\ localStorage' = [present |-> TRUE,
                      messages |-> jsonRoundTrip(conversationMessages),
                      models |-> modelStatus,
                      settings |-> conversationSettings]
  /\ UNCHANGED <<modelStatus, conversationMessages, isProcessing,
                 conversationSettings, messageIdCounter, sessionTimers, turn,
                 sends, sendsAllowed, thinkingEmitted, resetPending>>
  /\ UNCHANGED <<orchVars, sortVars, treeVars, delayVars>>

\* lines 483-492: the counter is not restored
handleLoadConversation ==
  /\ IF localStorage.present
     THEN /\ conversationMessages' = localStorage.messages
          /\ modelStatus' = localStorage.models
          /\ conversationSettings' = localStorage.settings
          /\ resetPending' = FALSE
     ELSE UNCHANGED <<conversationMessages, modelStatus,
                      conversationSettings, resetPending>>
  /\ UNCHANGED <<isProcessing, messageIdCounter, localStorage, sessionTimers,
                 turn, sends, sendsAllowed, thinkingEmitted>>
  /\ UNCHANGED <<orchVars, sortVars, treeVars, delayVars>>

\* lines 494-506: no timer is cleared
handleClearAll ==
  /\ conversationMessages' = << >>
  /\ modelStatus' = [m \in Range(initialModels) |-> "inactive"]
  /\ messageIdCounter' = 0
  /\ resetPending' = TRUE
  /\ UNCHANGED <<isProcessing, conversationSettings, localStorage,
                 sessionTimers, turn, sends, sendsAllowed, thinkingEmitted>>
  /\ UNCHANGED <<orchVars, sortVars, treeVars, delayVars>>

defaultSettings == [allowInterruptions |-> TRUE, showThinking |-> TRUE]

NoTurn == [activeModels |-> << >>, settings |-> defaultSettings,
           history |-> << >>]

\* the page with the given statuses and settings, on which the user submits
\* at most the given number of prompts
SessionInit(status, settings, prompts) ==
  /\ modelStatus = status
  /\ conversationMessages = << >>
  /\ isProcessing = FALSE
  /\ conversationSettings = settings
  /\ messageIdCounter = 0
  /\ localStorage = NoItem
  /\ sessionTimers = {}
  /\ turn = [k \in TurnIds |-> NoTurn]
  /\ sends = 0
  /\ sendsAllowed = prompts
  /\ thinkingEmitted = [k \in TurnIds |-> 0]
  /\ resetPending = FALSE

(***************************************************************************)
(* determineResponseOrder applied to a list of personalities               *)
(***************************************************************************)
Levels == {"low", "medium", "high"}
SortIds == ModelIds \cup {"custom"}

\* the lists of at most MaxSortLen personalities with pairwise distinct ids
SortInputs ==
  UNION { { s \in [1..n -> [id : SortIds, interruptiveness : Levels]] :
              \A a, b \in 1..n : a # b => s[a].id # s[b].id }
          : n \in 0..MaxSortLen }

SortModes == {"debate", "devils-advocate", "collaborative"}

SortInit(input, md) ==
  /\ sortInput = input
  /\ sortMode = md
  /\ sortResults = << >>

\* one call on the same arguments
CallDetermineResponseOrder ==
  /\ Len(sortResults) < 2
  /\ \E order \in determineResponseOrder(sortInput, sortMode) :
       sortResults' = Append(sortResults, order)
  /\ UNCHANGED <<sortInput, sortMode>>
  /\ UNCHANGED <<orchVars, sessVars, treeVars, delayVars>>

(***************************************************************************)
(* ThreadedConversationStream: buildMessageTree.  A node of the forest is  *)
(* an entry of messageMap, and a replies list holds references to such     *)
(* entries: here the entry's key.                                          *)
(***************************************************************************)
\* Map.prototype.set
MapSet(map, key, value) ==
  [x \in (DOMAIN map) \cup {key} |-> IF x = key THEN value ELSE map[x]]

\* lines 376-378: the first pass, after its first n iterations
RECURSIVE createMessageMap(_, _)
createMessageMap(msgs, n) ==
  IF n = 0 THEN << >>
  ELSE MapSet(createMessageMap(msgs, n - 1), msgs[n].id,
              [msg |-> msgs[n], replies |-> << >>])

\* a test that finds no parentId on any message
HasParentNever(msg) == FALSE

\* line 384: a parentId that is present and not the empty string
HasParent(msg) == msg.parentId # NoParent

\* a reply put in front of the ones already there
unshiftReply(replies, id) == <<id>> \o replies

\* line 387
pushReply(replies, id) == Append(replies, id)

\* lines 381-392: the second pass over the finished map, after its first n
\* iterations
RECURSIVE buildTreeStructure(_, _, _)
buildTreeStructure(msgs, map, n) ==
  IF n = 0 THEN [messageMap |-> map, rootMessages |-> << >>]
  ELSE LET prev == buildTreeStructure(msgs, map, n - 1)
           msg == msgs[n]
       IN  IF HasParent(msg)
           THEN IF msg.parentId \in DOMAIN prev.messageMap
                THEN [prev EXCEPT !.messageMap[msg.parentId].replies =
                                     pushReply(@, msg.id)]
                ELSE prev
           ELSE [prev EXCEPT !.rootMessages = Append(@, msg.id)]

\* the entries that can be reached from the given ones through replies
RECURSIVE ReachableFrom(_, _, _)
ReachableFrom(map, ids, k) ==
  IF k = 0 THEN ids
  ELSE ReachableFrom(map,
                     ids \cup UNION {Range(map[x].replies) : x \in ids},
                     k - 1)

\* what the caller holds: the roots, and the nodes reachable from them
Forest(built) ==
  LET kept == ReachableFrom(built.messageMap, Range(built.rootMessages),
                            Cardinality(DOMAIN built.messageMap))
  IN  [roots |-> built.rootMessages,
       nodes |-> [x \in kept |-> built.messageMap[x]]]

\* a builder with a single pass: a parent is found only when it came earlier
RECURSIVE buildOnePass(_, _)
buildOnePass(msgs, n) ==
  IF n = 0 THEN [messageMap |-> << >>, rootMessages |-> << >>]
  ELSE LET prev == buildOnePass(msgs, n - 1)
           msg == msgs[n]
           here == [prev EXCEPT !.messageMap =
                      MapSet(@, msg.id, [msg |-> msg, replies |-> << >>])]
       IN  IF HasParent(msg)
           THEN IF msg.parentId \in DOMAIN prev.messageMap
                THEN [here EXCEPT !.messageMap[msg.parentId].replies =
                                     pushReply(@, msg.id)]
                ELSE here
           ELSE [here EXCEPT !.rootMessages = Append(@, msg.id)]

buildMessageTreeOnePass(msgs) == Forest(buildOnePass(msgs, Len(msgs)))

\* lines 371-395
buildMessageTree(msgs) ==
  Forest(buildTreeStructure(msgs, createMessageMap(msgs, Len(msgs)),
                            Len(msgs)))

\* a render that keeps the forest it built last and only places the message
\* that came in
renderTreeIncremental(previous, msgs) ==
  IF msgs = << >> THEN buildMessageTree(msgs)
  ELSE LET msg == msgs[Len(msgs)]
           node == [msg |-> msg, replies |-> << >>]
       IN  IF HasParent(msg)
           THEN IF msg.parentId \in DOMAIN previous.nodes
                THEN [roots |-> previous.roots,
                      nodes |-> MapSet([previous.nodes EXCEPT
                                          ![msg.parentId].replies =
                                             pushReply(@, msg.id)],
                                       msg.id, node)]
                ELSE previous
           ELSE [roots |-> Append(previous.roots, msg.id),
                 nodes |-> MapSet(previous.nodes, msg.id, node)]

\* line 397: every render builds the forest anew from the messages it is
\* given; nothing of the forest built before is read
renderTree(previous, msgs) == buildMessageTree(msgs)

\* a message as the stream holds it
StreamMessage(id, parentId, type, approved, timestamp) ==
  [id |-> id, parentId |-> parentId, type |-> type, isApproved |-> approved,
   timestamp |-> timestamp]

\* the messages that may arrive: A; B and D under A with one timestamp; C
\* under B; X under a parent that never arrives
StreamMessages ==
  { StreamMessage(<<"A">>, NoParent, "message", "undefined", 1),
    StreamMessage(<<"B">>, <<"A">>, "sub-response", "false", 2),
    StreamMessage(<<"C">>, <<"B">>, "sub-response", "false", 3),
    StreamMessage(<<"D">>, <<"A">>, "sub-response", "false", 2),
    StreamMessage(<<"X">>, <<"missing">>, "sub-response", "false", 1) }

StreamIds(msgs) == {msgs[n].id : n \in 1..Len(msgs)}

(***************************************************************************)
(* buildMessageTree on objects.  A heap maps a reference to the message    *)
(* object it names; the input array holds the references InputRef(1),      *)
(* InputRef(2), ..., a replies field holds references (or what the caller  *)
(* put there), and an object changes for everybody who holds a reference   *)
(* to it.                                                                  *)
(***************************************************************************)
InputRef(n) == <<"input", n>>
CopyRef(n) == <<"copy", n>>

\* a message object: a message of the stream with its replies field
MessageObject(msg, replies) ==
  [id |-> msg.id, parentId |-> msg.parentId, type |-> msg.type,
   isApproved |-> msg.isApproved, timestamp |-> msg.timestamp,
   replies |-> replies]

\* the heap that holds the objects of the input array
heapOf(msgs) == [ref \in {InputRef(n) : n \in 1..Len(msgs)} |-> msgs[ref[2]]]

\* the input array read from the heap
inputOf(heap, len) == [n \in 1..len |-> heap[InputRef(n)]]

\* a first pass that puts the message object itself in the map
setMessageItself(heap, n) == [ref |-> InputRef(n), heap |-> heap]

\* line 377: { ...msg, replies: [] } is a new object with the fields of msg
\* and a new, empty replies array
spreadWithEmptyReplies(heap, n) ==
  [ref |-> CopyRef(n),
   heap |-> MapSet(heap, CopyRef(n),
                   [heap[InputRef(n)] EXCEPT !.replies = << >>])]

\* lines 376-378 on objects: the first pass, after its first n iterations
RECURSIVE createMessageMapOfObjects(_, _)
createMessageMapOfObjects(msgs, n) ==
  IF n = 0 THEN [heap |-> heapOf(msgs), messageMap |-> << >>]
  ELSE LET prev == createMessageMapOfObjects(msgs, n - 1)
           made == spreadWithEmptyReplies(prev.heap, n)
       IN  [heap |-> made.heap,
            messageMap |-> MapSet(prev.messageMap, msgs[n].id, made.ref)]

\* lines 381-392 on objects: the second pass, after its first n iterations;
\* push changes the replies array of the object the map holds for the parent
RECURSIVE buildTreeStructureOfObjects(_, _, _)
buildTreeStructureOfObjects(msgs, first, n) ==
  IF n = 0
  THEN [heap |-> first.heap, messageMap |-> first.messageMap,
        rootMessages |-> << >>]
  ELSE LET prev == buildTreeStructureOfObjects(msgs, first, n - 1)
           msg == msgs[n]
           messageWithReplies == prev.messageMap[msg.id]
       IN  IF HasParent(msg)
           THEN IF msg.parentId \in DOMAIN prev.messageMap
                THEN [prev EXCEPT
                        !.heap[prev.messageMap[msg.parentId]].replies =
                           pushReply(@, messageWithReplies)]
                ELSE prev
           ELSE [prev EXCEPT !.rootMessages = Append(@, messageWithReplies)]

\* lines 371-395 on objects: the heap after the call and the array returned
buildMessageTreeOfObjects(msgs) ==
  buildTreeStructureOfObjects(msgs,
                              createMessageMapOfObjects(msgs, Len(msgs)),
                              Len(msgs))

\* the objects of the heap that can be reached from the given ones through
\* replies
RECURSIVE ObjectsFrom(_, _, _)
ObjectsFrom(heap, refs, k) ==
  IF k = 0 THEN refs
  ELSE ObjectsFrom(heap,
                   refs \cup (UNION {Range(heap[x].replies) : x \in refs}
                                \cap DOMAIN heap),
                   k - 1)

\* what a caller may have put in the replies field of a message it passes:
\* an empty array, or an array that holds an object
CarriedReplies == {<< >>, << <<"carried", 1>> >>}

BuildMessages ==
  { StreamMessage(<<"A">>, NoParent, "message", "undefined", 1),
    StreamMessage(<<"B">>, <<"A">>, "sub-response", "false", 2),
    StreamMessage(<<"C">>, <<"B">>, "sub-response", "false", 3),
    StreamMessage(<<"D">>, <<"A">>, "sub-response", "false", 2) }

\* the arrays of message objects with pairwise distinct ids
BuildInputs ==
  UNION { { s \in [1..n -> {MessageObject(msg, replies) :
                              msg \in BuildMessages,
                              replies \in CarriedReplies}] :
              \A a, b \in 1..n : a # b => s[a].id # s[b].id }
          : n \in 0..Cardinality(BuildMessages) }

\* line 397: the component calls buildMessageTree on the array it holds and
\* keeps the forest; streamMessages is the array as it is after the call,
\* messageTree the roots returned with the objects reachable from them
CallBuildMessageTree ==
  /\ messageTree = renderTree(<< >>, << >>)
  /\ LET built == buildMessageTreeOfObjects(streamMessages)
         kept == ObjectsFrom(built.heap, Range(built.rootMessages),
                             Len(streamMessages))
     IN  /\ streamMessages' = inputOf(built.heap, Len(streamMessages))
         /\ messageTree' = [roots |-> built.rootMessages,
                            nodes |-> [ref \in kept |-> built.heap[ref]]]
  /\ UNCHANGED delivered
  /\ UNCHANGED <<orchVars, sessVars, sortVars, delayVars>>

TreeInit ==
  /\ streamMessages = << >>
  /\ messageTree = renderTree(<< >>, << >>)
  /\ delivered = {}

\* the parent component adds a message, each message once, and the stream
\* renders
ReceiveMessage(msg) ==
  /\ Len(streamMessages) < MaxStreamLen
  /\ msg.id \notin delivered
  /\ streamMessages' = Append(streamMessages, msg)
  /\ delivered' = delivered \cup {msg.id}
  /\ messageTree' = renderTree(messageTree, streamMessages')
  /\ UNCHANGED <<orchVars, sessVars, sortVars, delayVars>>

\* a bubble that shows approval buttons for everything it renders
approvalButtonsAlways(tree, id) == id \in DOMAIN tree.nodes

\* a bubble that shows approval buttons for everything not yet approved
approvalButtonsUnapproved(tree, id) ==
  /\ id \in DOMAIN tree.nodes
  /\ tree.nodes[id].msg.isApproved # "true"

\* lines 266, 346 and 464: the bubble of a node of the forest shows the
\* approve and reject buttons when the node is a sub-response that is not
\* approved
approvalButtonsShown(tree, id) ==
  /\ id \in DOMAIN tree.nodes
  /\ tree.nodes[id].msg.type = "sub-response"
  /\ tree.nodes[id].msg.isApproved # "true"

\* the parent's onApproveSubResponse: the message becomes an ordinary,
\* approved message
onApproveSubResponse(msgs, id) ==
  [n \in 1..Len(msgs) |->
     IF msgs[n].id = id
     THEN [msgs[n] EXCEPT !.type = "message", !.isApproved = "true"]
     ELSE msgs[n]]

\* the parent's onRejectSubResponse: the message is removed
RECURSIVE onRejectSubResponse(_, _)
onRejectSubResponse(msgs, id) ==
  IF msgs = << >> THEN << >>
  ELSE IF Head(msgs).id = id THEN onRejectSubResponse(Tail(msgs), id)
       ELSE <<Head(msgs)>> \o onRejectSubResponse(Tail(msgs), id)

\* line 272: the approve button of a bubble is clicked
ApproveClicked(id) ==
  /\ approvalButtonsShown(messageTree, id)
  /\ streamMessages' = onApproveSubResponse(streamMessages, id)
  /\ messageTree' = renderTree(messageTree, streamMessages')
  /\ UNCHANGED delivered
  /\ UNCHANGED <<orchVars, sessVars, sortVars, delayVars>>

\* line 280: the reject button of a bubble is clicked
RejectClicked(id) ==
  /\ approvalButtonsShown(messageTree, id)
  /\ streamMessages' = onRejectSubResponse(streamMessages, id)
  /\ messageTree' = renderTree(messageTree, streamMessages')
  /\ UNCHANGED delivered
  /\ UNCHANGED <<orchVars, sessVars, sortVars, delayVars>>

(***************************************************************************)
(* The delay of a primary response, in milliseconds.  Math.random() is a   *)
(* number of thousandths, so that Math.random() * 2000 is draw * 2.        *)
(***************************************************************************)
\* the complexity slider: lines 305-309 of EnhancedMissionControl.tsx
Complexities == 1..10

Draws == {0, 500, 999}

\* line 70 of Index.tsx: defaultSettings.responseDelay, in seconds
defaultResponseDelay == 2

\* line 118 of ConversationOrchestrator.tsx
gapDelay(index, draw) == IF index = 0 THEN 500 ELSE draw * 2 + 1000

\* lines 110-147 of ConversationOrchestrator.tsx: the response timer is set
\* with gapDelay; responseDelay (lines 112-115) is computed and not used,
\* and complexity only goes to generateResponse, which does not read it
primaryResponseDelay(complexity, index, draw) == gapDelay(index, draw)

\* lines 199-204 of Index.tsx
sessionResponseDelay(responseDelay, draw, complexity, r) ==
  responseDelay * 1000 + draw * 2 + complexity * 300 + r * 1000

DelayInit(index, draw) ==
  /\ delayIndex = index
  /\ delayDraw = draw
  /\ gapDelays = << >>
  /\ responseDelays = << >>

\* the orchestrator schedules a primary response at the given complexity
ScheduleGap(complexity) ==
  /\ Len(gapDelays) < 2
  /\ gapDelays' =
       Append(gapDelays,
              [complexity |-> complexity,
               delay |-> primaryResponseDelay(complexity, delayIndex,
                                              delayDraw)])
  /\ UNCHANGED <<delayIndex, delayDraw, responseDelays>>
  /\ UNCHANGED <<orchVars, sessVars, sortVars, treeVars>>

\* the session layer schedules a response at the given complexity
ScheduleResponse(complexity) ==
  /\ Len(responseDelays) < 2
  /\ responseDelays' =
       Append(responseDelays,
              [complexity |-> complexity,
               delay |-> sessionResponseDelay(defaultResponseDelay, delayDraw,
                                              complexity, delayIndex)])
  /\ UNCHANGED <<delayIndex, delayDraw, gapDelays>>
  /\ UNCHANGED <<orchVars, sessVars, sortVars, treeVars>>

(***************************************************************************)
(* Specifications                                                          *)
(***************************************************************************)
vars == <<orchVars, sessVars, sortVars, treeVars, delayVars>>

TimerFires ==
  \/ \E t \in timers : StaggerFires(t)
  \/ \E t \in timers : CompleteFires(t)
  \/ \E t \in timers : GapFires(t)
  \/ \E t \in timers : handleSubResponses(t)
  \/ \E t \in timers : Phase3Fires(t)
  \/ \E t \in timers : WaitFires(t)
  \/ \E t \in timers : FollowUpFires(t)

\* Spec: one turn on an orchestrator over a registry of two personalities
Init ==
  /\ SortInit(<< >>, "collaborative")
  /\ TreeInit
  /\ DelayInit(0, 0)
  /\ OrchInit(<<"gpt4", "claude">>, 1)
  /\ SessionInit([m \in Range(initialModels) |-> "active"], defaultSettings, 0)

Next ==
  \/ \E k \in TurnIds, ids \in SUBSET ModelIds, md \in Modes :
       simulateNaturalConversation(k, ids, md)
  \/ TimerFires
  \/ \E t \in timers : SubResponseFires(t)
  \/ cleanup
  \/ Tick

Spec == Init /\ [][Next]_vars

\* SpecFailure: one turn on an orchestrator over the same registry, in which
\* generateResponse throws for claude
InitFailure ==
  /\ SortInit(<< >>, "collaborative")
  /\ TreeInit
  /\ DelayInit(0, 0)
  /\ OrchInitFailing(<<"gpt4", "claude">>, 1, {"claude"})
  /\ SessionInit([m \in Range(initialModels) |-> "active"], defaultSettings, 0)

SpecFailure == InitFailure /\ [][Next]_vars

\* SpecCustom: one turn on an orchestrator whose registry holds two
\* personalities that are not in the response banks; neither has a trigger,
\* so no sub-response timer is ever set
InitCustom ==
  /\ SortInit(<< >>, "collaborative")
  /\ TreeInit
  /\ DelayInit(0, 0)
  /\ OrchInit(<<"custom", "constructor">>, 1)
  /\ SessionInit([m \in Range(initialModels) |-> "active"], defaultSettings, 0)

NextCustom ==
  \/ \E k \in TurnIds, ids \in SUBSET Range(models), md \in Modes :
       simulateNaturalConversation(k, ids, md)
  \/ TimerFires
  \/ cleanup
  \/ Tick

SpecCustom == InitCustom /\ [][NextCustom]_vars

\* SpecQuiet: one turn on the same orchestrator, begun from a page whose
\* allowInterruptions setting is off
quietSettings == [allowInterruptions |-> FALSE, showThinking |-> TRUE]

InitQuiet ==
  /\ SortInit(<< >>, "collaborative")
  /\ TreeInit
  /\ DelayInit(0, 0)
  /\ OrchInit(<<"gpt4", "claude">>, 1)
  /\ SessionInit([m \in Range(initialModels) |-> "active"], quietSettings, 0)

SpecQuiet == InitQuiet /\ [][Next]_vars

\* SpecTurns: two turns on one orchestrator whose registry holds a single
\* personality (no other model, so no sub-response timer is ever set)
InitTurns ==
  /\ SortInit(<< >>, "collaborative")
  /\ TreeInit
  /\ DelayInit(0, 0)
  /\ OrchInit(<<"gpt4">>, 2)
  /\ SessionInit([m \in Range(initialModels) |-> "active"], defaultSettings, 0)

NextTurns ==
  \/ \E k \in TurnIds, md \in Modes :
       simulateNaturalConversation(k, {"gpt4"}, md)
  \/ TimerFires
  \/ cleanup
  \/ Tick

SpecTurns == InitTurns /\ [][NextTurns]_vars

\* SpecSession: the page after the user has switched gemini off and set the
\* two switches; one prompt.  Of the draws that decide who answers in rounds
\* 1 and 2, those in LaterDraws are followed.
LaterDraws == { {}, {"gpt4"} }

InitSession ==
  /\ SortInit(<< >>, "collaborative")
  /\ TreeInit
  /\ DelayInit(0, 0)
  /\ OrchInit(<< >>, 0)
  /\ \E settings \in [allowInterruptions : BOOLEAN, showThinking : BOOLEAN] :
       SessionInit([m \in Range(initialModels) |->
                      IF m = "gemini" THEN "inactive" ELSE "active"],
                   settings, 1)

SessionTimerFires ==
  \/ \E t \in sessionTimers : ThinkingFires(t)
  \/ \E t \in sessionTimers, interrupt \in BOOLEAN : ResponseFires(t, interrupt)
  \/ \E t \in sessionTimers, m \in ModelIds \cup {"none"} :
       InterruptionFires(t, m)

NextSession ==
  \/ \E message \in Prompts, later1, later2 \in LaterDraws :
       handleSend(message, later1, later2)
  \/ SessionTimerFires
  \/ \E m \in {"gpt4"} : handleToggleModel(m)
  \/ handleClearAll

SpecSession == InitSession /\ [][NextSession]_vars

\* SpecReload: the page after the user has switched claude and gemini and
\* both switches off; two prompts, with save, load and clear-all.  Of the
\* draws for rounds 1 and 2 only the one where nobody answers is followed.
InitReload ==
  /\ SortInit(<< >>, "collaborative")
  /\ TreeInit
  /\ DelayInit(0, 0)
  /\ OrchInit(<< >>, 0)
  /\ SessionInit([m \in Range(initialModels) |->
                    IF m = "gpt4" THEN "active" ELSE "inactive"],
                 [allowInterruptions |-> FALSE, showThinking |-> FALSE], 2)

NextReload ==
  \/ \E message \in Prompts : handleSend(message, {}, {})
  \/ \E t \in sessionTimers, interrupt \in BOOLEAN : ResponseFires(t, interrupt)
  \/ handleSaveConversation
  \/ handleLoadConversation
  \/ handleClearAll

SpecReload == InitReload /\ [][NextReload]_vars

\* SpecOrder: determineResponseOrder called twice on one list and mode
InitOrder ==
  /\ TreeInit
  /\ DelayInit(0, 0)
  /\ OrchInit(<< >>, 0)
  /\ SessionInit([m \in Range(initialModels) |-> "active"], defaultSettings, 0)
  /\ \E input \in SortInputs, md \in SortModes : SortInit(input, md)

NextOrder == CallDetermineResponseOrder

SpecOrder == InitOrder /\ [][NextOrder]_vars

\* SpecDelay: the delay of a primary response computed twice by each layer,
\* with the same draw and the same loop index or round
InitDelay ==
  /\ SortInit(<< >>, "collaborative")
  /\ TreeInit
  /\ OrchInit(<< >>, 0)
  /\ SessionInit([m \in Range(initialModels) |-> "active"], defaultSettings, 0)
  /\ \E index \in 0..2, draw \in Draws : DelayInit(index, draw)

NextDelay ==
  \/ \E complexity \in Complexities : ScheduleGap(complexity)
  \/ \E complexity \in Complexities : ScheduleResponse(complexity)

SpecDelay == InitDelay /\ [][NextDelay]_vars

\* SpecTree: a stream that receives messages of StreamMessages in any order
\* and whose sub-responses the user approves or rejects
InitTree ==
  /\ SortInit(<< >>, "collaborative")
  /\ TreeInit
  /\ DelayInit(0, 0)
  /\ OrchInit(<< >>, 0)
  /\ SessionInit([m \in Range(initialModels) |-> "active"], defaultSettings, 0)

NextTree ==
  \/ \E msg \in StreamMessages : ReceiveMessage(msg)
  \/ \E id \in delivered : ApproveClicked(id)
  \/ \E id \in delivered : RejectClicked(id)

SpecTree == InitTree /\ [][NextTree]_vars

\* SpecCycle: the stream receives, in any order, A, B under A, S that names
\* itself as parent, and P and Q that name each other
CyclicMessages ==
  { StreamMessage(<<"A">>, NoParent, "message", "undefined", 1),
    StreamMessage(<<"B">>, <<"A">>, "sub-response", "false", 2),
    StreamMessage(<<"S">>, <<"S">>, "sub-response", "false", 3),
    StreamMessage(<<"P">>, <<"Q">>, "sub-response", "false", 4),
    StreamMessage(<<"Q">>, <<"P">>, "sub-response", "false", 5) }

InitCycle == InitTree

NextCycle == \E msg \in CyclicMessages : ReceiveMessage(msg)

SpecCycle == InitCycle /\ [][NextCycle]_vars

\* SpecBuild: one call of buildMessageTree on an array of message objects
InitBuild ==
  /\ SortInit(<< >>, "collaborative")
  /\ DelayInit(0, 0)
  /\ OrchInit(<< >>, 0)
  /\ SessionInit([m \in Range(initialModels) |-> "active"], defaultSettings, 0)
  /\ streamMessages \in BuildInputs
  /\ messageTree = renderTree(<< >>, << >>)
  /\ delivered = {}

NextBuild == CallBuildMessageTree

SpecBuild == InitBuild /\ [][NextBuild]_vars

\* FairSpec: Spec with the event loop running every timer that is due
FairSpec ==
  Spec /\ WF_vars(TimerFires \/ \E t \in timers : SubResponseFires(t))

(***************************************************************************)
(* Properties                                                              *)
(***************************************************************************)
Calls(k) == {n \in 1..Len(log) : log[n].turn = k}
IsThinking(n) == log[n].msg.type = "thinking"
IsPrimary(n) == log[n].msg.id[1] = "msg"
IsSub(n) == log[n].msg.id[1] = "sub"
IsFollowUp(n) == log[n].msg.id[1] = "followup"

\* the authors of the primary responses of turn k, in the order of emission
RECURSIVE PrimaryAuthors(_, _)
PrimaryAuthors(k, n) ==
  IF n = 0 THEN << >>
  ELSE IF log[n].turn = k /\ IsPrimary(n)
       THEN Append(PrimaryAuthors(k, n - 1), log[n].msg.modelId)
       ELSE PrimaryAuthors(k, n - 1)

IsPrefix(a, b) == Len(a) <= Len(b) /\ \A n \in 1..Len(a) : a[n] = b[n]

\* C1: once cleanup() has returned during a turn, no further callback call
\* (onMessageUpdate or onSubResponseCreated) is made for that turn.
C1_NoCallAfterCleanup ==
  [][\A k \in TurnIds :
       cleaned[k] => \A n \in 1..Len(log') : log'[n].turn = k => n <= Len(log)
    ]_vars

\* C2: a cleanup() call changes nothing but the registry and the pending
\* state of the timers registered in it, and a second call right after it
\* changes nothing at all: twice is the same as once, from every state.
C2_CleanupIdempotent ==
  [][cleanup =>
       /\ UNCHANGED <<models, throwsFor, now, pc, activeModels, mode, thinkingResolved,
                      responseOrder, i, round, continuationChance, log>>
       /\ timers' \subseteq timers
       /\ (timers \ timers') \subseteq activeTimeouts
       /\ timers' \cap activeTimeouts = {}
       /\ cleanupTimers(timers', activeTimeouts') = timers'
       /\ cleanupRegistry(activeTimeouts') = activeTimeouts'
    ]_vars

\* cleanup() ran while the turn waited for a response timer, which it cleared
C2_Witness ==
  /\ cleaned[1]
  /\ pc[1] = "primary"
  /\ activeTimeouts = {}
  /\ Pending(1, "gap") = {}

\* C3: after handleClearAll the message list stays empty until the next
\* submission (or load).
C3_EmptyAfterClearAll == resetPending => conversationMessages = << >>

C4_WitnessOff ==
  /\ sends = 1
  /\ ~turn[1].settings.showThinking
  /\ Len(turn[1].activeModels) = 2
  /\ Len(conversationMessages) >= 3

PrimaryShape(k) ==
  /\ IsPrefix(PrimaryAuthors(k, Len(log)), responseOrder[k])
  /\ \A n \in Calls(k) :
       IsPrimary(n) => /\ log[n].via = "onMessageUpdate"
                       /\ log[n].msg.type = "message"
                       /\ log[n].msg.parentId = NoParent
  /\ \A a, b \in Calls(k) :
       (IsPrimary(a) /\ IsPrimary(b) /\ a # b) => log[a].msg.id # log[b].msg.id

PrimaryDone(k) ==
  /\ pc[k] = "resolved"
  /\ PrimaryAuthors(k, Len(log)) = responseOrder[k]
  /\ Range(responseOrder[k]) = Range(activeModels[k])
  /\ Len(responseOrder[k]) = Len(activeModels[k])

\* C5: the primary responses of a turn are emitted one at a time in the
\* order of responseOrder, as top-level messages with distinct ids, and a
\* turn that is never cancelled ends with exactly one per active model.
C5_PrimaryResponses ==
  /\ [](\A k \in TurnIds : PrimaryShape(k))
  /\ \A k \in TurnIds : (pc[k] # "idle") ~> (cleaned[k] \/ PrimaryDone(k))

\* both models have answered in an uncancelled turn
C5_Witness ==
  /\ ~cleaned[1]
  /\ Len(activeModels[1]) = 2
  /\ PrimaryDone(1)

\* C6: when the first primary response of a turn is emitted, every active
\* model's placeholder has been emitted and its thinking delay has elapsed.
C6_ThinkingBarrier ==
  \A k \in TurnIds : \A n \in Calls(k) :
    IsPrimary(n) =>
      \A m \in Range(activeModels[k]) :
        /\ m \in thinkingResolved[k]
        /\ \E j \in Calls(k) :
             j < n /\ IsThinking(j) /\ log[j].msg.modelId = m

\* a primary response of a turn of two models is out
C6_Witness ==
  /\ Len(activeModels[1]) = 2
  /\ \E n \in Calls(1) : IsPrimary(n)

\* C7: a sub-response is delivered through onSubResponseCreated only, once,
\* with parentId and callback argument equal to the id of a primary response
\* of the same turn that was delivered before it.
C7_SubResponses ==
  /\ \A n \in 1..Len(log) :
       (log[n].msg.type = "sub-response" \/ IsSub(n)
          \/ log[n].via = "onSubResponseCreated")
       => /\ log[n].via = "onSubResponseCreated"
          /\ log[n].msg.type = "sub-response"
          /\ log[n].msg.parentId = log[n].arg
          /\ \E j \in Calls(log[n].turn) :
               /\ j < n
               /\ IsPrimary(j)
               /\ log[j].via = "onMessageUpdate"
               /\ log[j].msg.id = log[n].arg
  /\ \A a, b \in 1..Len(log) :
       (a # b /\ IsSub(a) /\ IsSub(b) /\ log[a].turn = log[b].turn)
       => <<log[a].msg.modelId, log[a].msg.parentId>>
            # <<log[b].msg.modelId, log[b].msg.parentId>>

\* a sub-response has been delivered
C7_Witness == \E n \in 1..Len(log) : log[n].via = "onSubResponseCreated"

IsPermutationOf(a, b) ==
  /\ Len(a) = Len(b)
  /\ \E f \in [1..Len(a) -> 1..Len(a)] :
       /\ \A x, y \in 1..Len(a) : x # y => f[x] # f[y]
       /\ \A x \in 1..Len(a) : a[x] = b[f[x]]

PositionIn(s, x) == CHOOSE n \in 1..Len(s) : s[n] = x

OrderedByScore(out, in) ==
  /\ IsPermutationOf(out, in)
  /\ \A n \in 1..(Len(out) - 1) :
       Score(out[n].interruptiveness) >= Score(out[n + 1].interruptiveness)
  /\ \A a, b \in 1..Len(out) :
       (a < b /\ out[a].interruptiveness = out[b].interruptiveness)
       => PositionIn(in, out[a]) < PositionIn(in, out[b])

\* C8: in a confrontational mode determineResponseOrder returns a
\* permutation of its input that is non-increasing in interruptiveness
\* score, keeps equal scores in input order, and returns the same on every
\* call with the same input.
C8_ResponseOrder ==
  IsConfrontational(sortMode) =>
    /\ \A n \in 1..Len(sortResults) : OrderedByScore(sortResults[n], sortInput)
    /\ \A a, b \in 1..Len(sortResults) : sortResults[a] = sortResults[b]

\* two calls on a list of three with a tie that the sort had to move
C8_Witness ==
  /\ sortMode = "debate"
  /\ Len(sortResults) = 2
  /\ Len(sortInput) = 3
  /\ sortInput[1].interruptiveness = "low"
  /\ sortInput[2].interruptiveness = "high"
  /\ sortInput[3].interruptiveness = "high"

\* C9: any two messages the orchestrator emits have different ids.
C9_IdsDistinct ==
  \A a, b \in 1..Len(log) : a # b => log[a].msg.id # log[b].msg.id

\* C10: no two messages of the session's message list share an id.
C10_SessionIdsDistinct ==
  \A a, b \in 1..Len(conversationMessages) :
    a # b => conversationMessages[a].id # conversationMessages[b].id

RepliesOf(id) == messageTree.nodes[id].replies

\* the ids of the messages of the stream, in stream order
IdSeq(msgs) == [n \in 1..Len(msgs) |-> msgs[n].id]

\* the ids, in stream order, of the messages whose parentId is the given one
RECURSIVE IdsUnder(_, _, _)
IdsUnder(msgs, parentId, n) ==
  IF n = 0 THEN << >>
  ELSE IF msgs[n].parentId = parentId
       THEN Append(IdsUnder(msgs, parentId, n - 1), msgs[n].id)
       ELSE IdsUnder(msgs, parentId, n - 1)

\* C11: whenever the stream holds exactly A, B (under A) and C (under B), in
\* whichever order they came, the forest is the chain A - B - C: one root A,
\* whose only child is B, whose only child is C, which has no child.
C11_ChainAnyOrder ==
  (Len(streamMessages) = 3
     /\ StreamIds(streamMessages) = {<<"A">>, <<"B">>, <<"C">>})
  => /\ messageTree.roots = << <<"A">> >>
     /\ DOMAIN messageTree.nodes = {<<"A">>, <<"B">>, <<"C">>}
     /\ RepliesOf(<<"A">>) = << <<"B">> >>
     /\ RepliesOf(<<"B">>) = << <<"C">> >>
     /\ RepliesOf(<<"C">>) = << >>

\* the three came leaf first
C11_Witness == IdSeq(streamMessages) = << <<"C">>, <<"B">>, <<"A">> >>

\* C12: a message whose parentId resolves to no message of the stream is a
\* root of the forest, and no message of the stream is missing from it.
C12_DanglingIsRoot ==
  /\ \A n \in 1..Len(streamMessages) :
       (HasParent(streamMessages[n])
          /\ streamMessages[n].parentId \notin StreamIds(streamMessages))
       => streamMessages[n].id \in Range(messageTree.roots)
  /\ StreamIds(streamMessages) \subseteq DOMAIN messageTree.nodes

\* C13: the roots are the parentless messages in stream order, and the
\* replies of every node are the messages naming it as parent in stream
\* order, whatever their timestamps.
C13_InputOrder ==
  /\ messageTree.roots = IdsUnder(streamMessages, NoParent, Len(streamMessages))
  /\ \A id \in DOMAIN messageTree.nodes :
       RepliesOf(id) = IdsUnder(streamMessages, id, Len(streamMessages))

\* D and B, of one timestamp, came in this order and both hang under A
C13_Witness ==
  /\ <<"A">> \in DOMAIN messageTree.nodes
  /\ RepliesOf(<<"A">>) = << <<"D">>, <<"B">> >>
  /\ \E a, b \in 1..Len(streamMessages) :
       /\ streamMessages[a].id = <<"D">>
       /\ streamMessages[b].id = <<"B">>
       /\ streamMessages[a].timestamp = streamMessages[b].timestamp

MessageOf(msgs, id) == msgs[CHOOSE n \in 1..Len(msgs) : msgs[n].id = id]

IsPendingIn(msgs, id) ==
  /\ id \in StreamIds(msgs)
  /\ MessageOf(msgs, id).type = "sub-response"
  /\ MessageOf(msgs, id).isApproved = "false"

IsApprovedIn(msgs, id) ==
  /\ id \in StreamIds(msgs)
  /\ MessageOf(msgs, id).type = "message"
  /\ MessageOf(msgs, id).isApproved = "true"

IsRejectedIn(msgs, id) == id \in delivered /\ id \notin StreamIds(msgs)

AddsMessageBy(m) ==
  /\ Len(conversationMessages') > Len(conversationMessages)
  /\ conversationMessages'[Len(conversationMessages')].modelId = m

\* C16: a participant the user has toggled to inactive stays inactive, and
\* no message written by it is added, in every step that is not the user's
\* next toggle of that participant (inactive through clear-all is left out).
C16_InactiveExcluded ==
  [][\A m \in ModelIds :
       (modelStatus[m] = "inactive" /\ ~resetPending /\ ~handleToggleModel(m))
       => /\ modelStatus'[m] = "inactive"
          /\ ~AddsMessageBy(m)
    ]_vars

\* C17: a turn begun with no active participant is rejected before anything
\* is scheduled: it has set no timer and made no callback call.
C17_InvalidTurnRejected ==
  \A k \in TurnIds :
    (pc[k] # "idle" /\ activeModels[k] = << >>)
    => /\ {t \in timers : t.turn = k} = {}
       /\ Calls(k) = {}

\* C18: a failure of one participant's content generation does not stop the
\* turn: while the primary phase of a turn that was not cancelled is
\* unfinished, the gap timer of the next response is pending, so the other
\* participants' responses and the completion of the turn are still to come.
C18_FailureIsolated ==
  \A k \in TurnIds :
    (pc[k] = "primary" /\ ~cleaned[k]) => Pending(k, "gap") # {}

\* C19: once the promise returned by simulateNaturalConversation has
\* resolved, no timer of the thinking phase or of the primary-response phase
\* of that turn, the timers that schedule and emit the sub-responses to its
\* primary responses included, is pending; only phase-3 timers may remain.
C19_ResolvedMeansPhasesDone ==
  \A k \in TurnIds :
    pc[k] = "resolved"
    => \A kind \in {"stagger", "complete", "gap", "subsched", "sub"} :
         Pending(k, kind) = {}

\* C20: in the session layer a turn in progress is told apart from a finished
\* one: whenever isProcessing is false, no first response of a submitted turn
\* is still pending.
C20_ProcessingUntilResponded ==
  ~isProcessing
  => {t \in sessionTimers : t.kind = "response" /\ t.round = 0} = {}

\* C21: thinking placeholders are transient: once every timer of the
\* submitted turns has fired, so that all responses have arrived, no thinking
\* placeholder is left in the session's message list.
C21_PlaceholdersRemoved ==
  (sends > 0 /\ sessionTimers = {})
  => \A n \in 1..Len(conversationMessages) :
       conversationMessages[n].type # "thinking"

\* the messages of a list that are not thinking placeholders, in list order
RECURSIVE SettledMessages(_)
SettledMessages(msgs) ==
  IF msgs = << >> THEN << >>
  ELSE IF Head(msgs).type = "thinking" THEN SettledMessages(Tail(msgs))
       ELSE <<Head(msgs)>> \o SettledMessages(Tail(msgs))

\* C22: emitted messages are immutable: every step of the session layer
\* other than a reset (send, timer callback, toggle) leaves each non-thinking
\* message of the list in the list, with all its fields and in the same
\* relative position, and adds messages only at the end.
C22_MessagesImmutable ==
  [][handleClearAll
       \/ IsPrefix(SettledMessages(conversationMessages),
                   SettledMessages(conversationMessages'))]_vars

\* two responses are in the list and gpt4 has been switched off while a
\* timer of the turn is still pending
C22_Witness ==
  /\ Len(SettledMessages(conversationMessages)) >= 3
  /\ modelStatus["gpt4"] = "inactive"
  /\ sessionTimers # {}

\* the session layer's own scheduler honours the setting: with
\* allowInterruptions off no interruption is in the list or pending
SessionNoInterruptionWhenOff ==
  ~conversationSettings.allowInterruptions
  => /\ \A n \in 1..Len(conversationMessages) :
          conversationMessages[n].type # "interruption"
     /\ \A t \in sessionTimers : t.kind # "interruption"

\* C23: when the allowInterruptions setting is off, the scheduler emits no
\* interruption and no sub-response during the turn, whatever the draws.
C23_NoSubResponseWhenOff ==
  ~conversationSettings.allowInterruptions
  => /\ SessionNoInterruptionWhenOff
     /\ \A n \in 1..Len(log) :
          log[n].msg.type \notin {"interruption", "sub-response"}

\* the session layer: one more level of complexity, with the same draw and
\* round, makes the response delay longer by 300 ms
SessionDelayLinear ==
  \A a, b \in 1..Len(responseDelays) :
    responseDelays[b].complexity = responseDelays[a].complexity + 1
    => responseDelays[b].delay - responseDelays[a].delay = 300

\* C24: the delay before a primary response grows linearly with complexity:
\* with the same draws, one more level of complexity makes the delay longer
\* by a fixed positive amount, in the orchestrator as in the session layer.
C24_DelayLinear ==
  /\ SessionDelayLinear
  /\ \E step \in 1..1000 :
       \A a, b \in 1..Len(gapDelays) :
         gapDelays[b].complexity = gapDelays[a].complexity + 1
         => gapDelays[b].delay - gapDelays[a].delay = step

\* the follow-up messages of turn k by model m, and its pending follow-ups
FollowUpsBy(k, m) ==
  {n \in Calls(k) : IsFollowUp(n) /\ log[n].msg.modelId = m}
PendingFollowUps(k, m) == {t \in Pending(k, "followup") : t.model = m}

\* the continuation chance after r rounds, in ten-thousandths
RECURSIVE ChanceAfter(_)
ChanceAfter(r) == IF r = 0 THEN 4000 ELSE (ChanceAfter(r - 1) * 6) \div 10

\* C25: the follow-up phase runs at most 3 rounds, each begun with a
\* continuation chance above 0.1 that starts at 0.4 and is multiplied by 0.6
\* after every round; a round schedules at most one follow-up per active
\* participant, so a turn has at most 3 follow-ups per participant.
C25_FollowUpRounds ==
  \A k \in TurnIds :
    /\ round[k] <= 3
    /\ round[k] > 0 => continuationChance[k] = ChanceAfter(round[k])
    /\ \A r \in 0..(round[k] - 1) : ChanceAfter(r) > 1000
    /\ \A t \in Pending(k, "followup") \cup Pending(k, "wait") :
         t.round < round[k]
    /\ \A t \in Pending(k, "followup") : t.model \in Range(activeModels[k])
    /\ \A m \in ModelIds :
         /\ Cardinality(FollowUpsBy(k, m)) + Cardinality(PendingFollowUps(k, m))
              <= round[k]
         /\ \A r \in 0..2 :
              Cardinality({t \in PendingFollowUps(k, m) : t.round = r}) <= 1
         /\ FollowUpsBy(k, m) # {} => m \in Range(activeModels[k])

\* all three rounds have run and gpt4 has followed up in each of them
C25_Witness ==
  /\ round[1] = 3
  /\ Pending(1, "wait") = {}
  /\ Cardinality(FollowUpsBy(1, "gpt4")) = 3

\* C26: a follow-up of a turn is emitted only after every primary response
\* of the turn has been emitted and the turn's promise has resolved; it is
\* delivered through onMessageUpdate as a root message without a parent.
C26_FollowUpsAfterPrimaries ==
  \A n \in 1..Len(log) :
    IsFollowUp(n)
    => LET k == log[n].turn
       IN  /\ pc[k] = "resolved"
           /\ \A m \in Range(activeModels[k]) :
                \E p \in 1..(n - 1) :
                  /\ log[p].turn = k
                  /\ IsPrimary(p)
                  /\ log[p].msg.modelId = m
           /\ log[n].via = "onMessageUpdate"
           /\ log[n].msg.parentId = NoParent
           /\ log[n].arg = NoParent
           /\ log[n].msg.type = "message"

\* both models have answered and claude has followed up
C26_Witness ==
  /\ activeModels[1] = <<"gpt4", "claude">>
  /\ \E n \in Calls(1) : IsFollowUp(n) /\ log[n].msg.modelId = "claude"

\* one of the trigger keywords of model m occurs in the content, letter case
\* set aside
TriggerOccurs(m, content) ==
  \E trigger \in Personality[m].subResponseTriggers :
    includes(toLowerCase(content), toLowerCase(trigger))

\* C27: a sub-response to a primary response is scheduled only for an active
\* participant other than the response's author, one of whose trigger
\* keywords occurs, compared case-insensitively, in the response's content;
\* so is every sub-response emitted.
C27_SubResponseTriggers ==
  /\ \A t \in timers :
       t.kind = "sub"
       => /\ t.model \in Range(activeModels[t.turn])
          /\ t.model # t.parent.modelId
          /\ TriggerOccurs(t.model, t.parent.content)
  /\ \A n \in 1..Len(log) :
       IsSub(n)
       => /\ log[n].msg.modelId \in Range(activeModels[log[n].turn])
          /\ \A p \in Calls(log[n].turn) :
               (IsPrimary(p) /\ log[p].msg.id = log[n].msg.parentId)
               => /\ log[p].msg.modelId # log[n].msg.modelId
                  /\ TriggerOccurs(log[n].msg.modelId, log[p].msg.content)

\* claude has sub-responded to gpt4's response, and handleSubResponses has
\* run for claude's response, in which gpt4's trigger does not occur
C27_Witness ==
  /\ \E n \in Calls(1) : IsSub(n) /\ log[n].msg.modelId = "claude"
  /\ \E n \in Calls(1) : IsPrimary(n) /\ log[n].msg.modelId = "claude"
  /\ Pending(1, "subsched") = {}
  /\ ~TriggerOccurs("gpt4", <<"E","t","h","i","c">>)

\* a content that is a string of at least one character
NonEmptyText(content) == content # << >> /\ content # undefined

\* C28: every message the orchestrator emits has empty content and
\* isComplete false exactly when its type is thinking; every other message
\* has non-empty content and isComplete true, also when its author's id is
\* not in the response banks.
C28_ContentByType ==
  \A n \in 1..Len(log) :
    LET msg == log[n].msg
    IN  IF msg.type = "thinking"
        THEN msg.content = << >> /\ ~msg.isComplete
        ELSE NonEmptyText(msg.content) /\ msg.isComplete

\* C29: every sub-response originates in the pending state: it is emitted
\* with type sub-response and isApproved false, and no step of the
\* orchestrator changes the approval state of a message it has emitted.
C29_SubResponsesPending ==
  /\ [](\A n \in 1..Len(log) :
          (IsSub(n) \/ log[n].via = "onSubResponseCreated")
          => /\ log[n].msg.type = "sub-response"
             /\ log[n].msg.isApproved = "false")
  /\ [][/\ Len(log') >= Len(log)
        /\ \A n \in 1..Len(log) :
             /\ log'[n].msg.id = log[n].msg.id
             /\ log'[n].msg.isApproved = log[n].msg.isApproved]_vars

\* a sub-response has been emitted and the orchestrator has emitted another
\* message after it
C29_Witness == \E n \in 1..Len(log) : IsSub(n) /\ n < Len(log)

\* the step adds a response of model m to the message list
AddsResponseOf(m) ==
  /\ Len(conversationMessages') = Len(conversationMessages) + 1
  /\ conversationMessages'[Len(conversationMessages')].modelId = m
  /\ conversationMessages'[Len(conversationMessages')].type = "message"

\* C30: a participant set to thinking at turn start has its first response
\* timer set in the same step; a response timer goes away only in the step
\* that adds its model's response, and that step sets the model's status to
\* active, so that no participant is left thinking by a response timer that
\* has fired.
C30_ThinkingEnds ==
  [][\A m \in ModelIds :
       /\ (sends' = sends + 1 /\ modelStatus'[m] = "thinking")
          => \E t \in sessionTimers' :
               /\ t.kind = "response" /\ t.model = m
               /\ t.round = 0 /\ t.turn = sends'
       /\ \A t \in sessionTimers \ sessionTimers' :
            (t.kind = "response" /\ t.model = m) => AddsResponseOf(m)
       /\ AddsResponseOf(m) => modelStatus'[m] = "active"
    ]_vars

\* both models were set to thinking and gpt4 is active again after its
\* response, while claude's is still to come
C30_Witness ==
  /\ sends = 1
  /\ modelStatus["gpt4"] = "active"
  /\ modelStatus["claude"] = "thinking"
  /\ \E n \in 1..Len(conversationMessages) :
       /\ conversationMessages[n].modelId = "gpt4"
       /\ conversationMessages[n].type = "message"

\* C31: in the session layer causal order within one participant holds in
\* every interleaving of timer firings: between resets, a participant's
\* thinking placeholder comes before its responses in the list, and an
\* interruption comes after the response it targets.
C31_CausalOrder ==
  ~resetPending
  => \A a, b \in 1..Len(conversationMessages) :
       LET x == conversationMessages[a]
           y == conversationMessages[b]
       IN  /\ (x.type = "thinking" /\ y.type = "message"
                 /\ x.modelId = y.modelId)
              => a < b
           /\ (x.type = "interruption" /\ y.id \in x.referencesTo) => b < a

\* C32: approve and reject are offered only for a message of type
\* sub-response whose isApproved is not true: every approve or reject call
\* made through the stream is for such a message, so an approved message and
\* an ordinary message are never approved or rejected.
C32_ApprovalOnlyForPending ==
  [][\A id \in delivered :
       (ApproveClicked(id) \/ RejectClicked(id))
       => /\ id \in StreamIds(streamMessages)
          /\ MessageOf(streamMessages, id).type = "sub-response"
          /\ MessageOf(streamMessages, id).isApproved # "true"
    ]_vars

\* B was approved and its reply C rejected, next to the ordinary message A
C32_Witness ==
  /\ IsApprovedIn(streamMessages, <<"B">>)
  /\ IsRejectedIn(streamMessages, <<"C">>)
  /\ <<"A">> \in StreamIds(streamMessages)

\* the last message of the list after the step
LastAdded == conversationMessages'[Len(conversationMessages')]

\* C33: an interruption timer is set in the step that adds the response it
\* targets, only for a response of round 0 or 1, and holds that response's id
\* and author; the interruption added when it fires, in a later step, is by
\* another participant, has referencesTo equal to exactly the target's id
\* and, the list not having been cleared, comes after the target in the list.
C33_InterruptionShape ==
  [][/\ \A u \in sessionTimers' \ sessionTimers :
          u.kind = "interruption"
          => /\ u.round < 2
             /\ Len(conversationMessages') = Len(conversationMessages) + 1
             /\ LastAdded.type = "message"
             /\ LastAdded.id = u.target
             /\ LastAdded.modelId = u.model
     /\ \A t \in sessionTimers, m \in ModelIds :
          InterruptionFires(t, m)
          => /\ Len(conversationMessages') = Len(conversationMessages) + 1
             /\ LastAdded.type = "interruption"
             /\ LastAdded.modelId # t.model
             /\ LastAdded.referencesTo = {t.target}
             /\ t.round < 2
             /\ ~resetPending
                  => \E b \in 1..Len(conversationMessages) :
                       /\ conversationMessages[b].id = t.target
                       /\ conversationMessages[b].type = "message"
                       /\ conversationMessages[b].modelId = t.model
    ]_vars

\* the turn is over: gpt4 has answered in rounds 0, 1 and 2 and claude has
\* interrupted one of its responses
C33_Witness ==
  /\ sessionTimers = {}
  /\ ~resetPending
  /\ Cardinality({n \in 1..Len(conversationMessages) :
                    /\ conversationMessages[n].type = "message"
                    /\ conversationMessages[n].modelId = "gpt4"}) = 3
  /\ \E a, b \in 1..Len(conversationMessages) :
       /\ conversationMessages[a].type = "interruption"
       /\ conversationMessages[a].modelId = "claude"
       /\ conversationMessages[b].modelId = "gpt4"
       /\ conversationMessages[a].referencesTo = {conversationMessages[b].id}

\* the timers whose firing lets the promise of turn k move on
SettlingTimers(k) ==
  Pending(k, "stagger") \cup Pending(k, "complete") \cup Pending(k, "gap")

\* without a cleanup() call an unsettled turn always has such a timer
UncancelledTurnCanSettle ==
  \A k \in TurnIds :
    (pc[k] \in {"thinking", "primary"} /\ ~cleaned[k])
    => SettlingTimers(k) # {}

\* C34: the promise returned by simulateNaturalConversation settles in every
\* execution, cleanup() during the thinking or the primary phase included: a
\* turn whose promise has not settled always has a timer pending whose firing
\* moves it towards settling.
C34_PromiseCanSettle ==
  \A k \in TurnIds :
    pc[k] \in {"thinking", "primary"} => SettlingTimers(k) # {}

\* C35: the floor never ends the follow-up phase early: once begun, the phase
\* is in its first or second round with the wait timer of that round pending,
\* or has run all 3 rounds; the rounds are entered with the chances 0.4, 0.24
\* and 0.144, so that 0.24, 0.144 and 0.0864 are left after them.
C35_ThreeRounds ==
  \A k \in TurnIds :
    /\ round[k] \in 0..3
    /\ round[k] = 0 => Pending(k, "wait") = {}
    /\ round[k] \in 1..2
         => /\ Cardinality(Pending(k, "wait")) = 1
            /\ \A t \in Pending(k, "wait") : t.round = round[k] - 1
    /\ round[k] = 1 => continuationChance[k] = 2400
    /\ round[k] = 2 => continuationChance[k] = 1440
    /\ round[k] = 3 => continuationChance[k] = 864

\* the phase has run its 3 rounds and is over, and nobody followed up
C35_Witness ==
  /\ round[1] = 3
  /\ Pending(1, "wait") = {}
  /\ Pending(1, "followup") = {}
  /\ \A n \in Calls(1) : ~IsFollowUp(n)
  /\ cleaned[1]

\* the places of the forest that hold the given id: <<"root", n>> for the
\* n-th root, <<x, n>> for the n-th reply of node x
PlacesOf(tree, id) ==
  {<<"root", n>> : n \in {j \in 1..Len(tree.roots) : tree.roots[j] = id}}
  \cup UNION { {<<x, n>> : n \in {j \in 1..Len(tree.nodes[x].replies) :
                                      tree.nodes[x].replies[j] = id}}
               : x \in DOMAIN tree.nodes }

\* ids pairwise distinct, every parentId absent or that of a message of the
\* list, and no message among its own ancestors
RECURSIVE Ancestors(_, _, _)
Ancestors(msgs, id, k) ==
  IF k = 0 THEN {}
  ELSE LET parents == {msgs[n].parentId : n \in {j \in 1..Len(msgs) :
                                                   msgs[j].id = id}}
                        \ {NoParent}
       IN  parents \cup UNION {Ancestors(msgs, p, k - 1) : p \in parents}

WellFormed(msgs) ==
  /\ \A a, b \in 1..Len(msgs) : a # b => msgs[a].id # msgs[b].id
  /\ \A n \in 1..Len(msgs) :
       /\ msgs[n].parentId # NoParent => msgs[n].parentId \in StreamIds(msgs)
       /\ msgs[n].id \notin Ancestors(msgs, msgs[n].id, Len(msgs))

\* C36: for a stream with distinct ids in which every parentId is absent or
\* resolves and no message is its own ancestor, the forest holds every
\* message exactly once, as a root when it has no parent and among its
\* parent's replies otherwise, and holds nothing else.
C36_ForestOfWellFormed ==
  WellFormed(streamMessages)
  => /\ DOMAIN messageTree.nodes = StreamIds(streamMessages)
     /\ \A n \in 1..Len(streamMessages) :
          LET msg == streamMessages[n]
          IN  /\ messageTree.nodes[msg.id].msg = msg
              /\ PlacesOf(messageTree, msg.id) \subseteq
                   {<<IF msg.parentId = NoParent THEN "root"
                      ELSE msg.parentId, j>> : j \in 1..Len(streamMessages)}
              /\ Cardinality(PlacesOf(messageTree, msg.id)) = 1
     /\ \A id \in Range(messageTree.roots) : id \in StreamIds(streamMessages)
     /\ \A x \in DOMAIN messageTree.nodes :
          Range(messageTree.nodes[x].replies) \subseteq StreamIds(streamMessages)

\* C, then B, then A and D: every parent is there, C and B came before theirs
C36_Witness ==
  /\ WellFormed(streamMessages)
  /\ IdSeq(streamMessages) = << <<"C">>, <<"B">>, <<"A">>, <<"D">> >>
  /\ PlacesOf(messageTree, <<"C">>) = {<< <<"B">>, 1 >>}

\* every parentId of the list is absent or that of a message of the list
ParentsResolve(msgs) ==
  \A n \in 1..Len(msgs) :
    msgs[n].parentId # NoParent => msgs[n].parentId \in StreamIds(msgs)

\* no node is held at two places, so a walk from the roots through replies
\* meets every node once and ends
WalkEnds(tree) ==
  /\ \A id \in DOMAIN tree.nodes : Cardinality(PlacesOf(tree, id)) = 1
  /\ \A id \in Range(tree.roots) : PlacesOf(tree, id) \subseteq
                                       {<<"root", n>> : n \in 1..Len(tree.roots)}

\* C37: also when parentIds form a cycle or a message names itself as
\* parent, the forest walked from its roots is finite and acyclic and, every
\* parentId resolving to a message of the stream, holds every message of the
\* stream: no cycle is orphaned.
C37_NoOrphanedCycle ==
  /\ WalkEnds(messageTree)
  /\ ParentsResolve(streamMessages)
       => StreamIds(streamMessages) \subseteq DOMAIN messageTree.nodes

\* the copies, in array order, of the messages whose parentId is the given id
RECURSIVE CopiesUnder(_, _, _)
CopiesUnder(msgs, parentId, n) ==
  IF n = 0 THEN << >>
  ELSE IF msgs[n].parentId = parentId
       THEN Append(CopiesUnder(msgs, parentId, n - 1), CopyRef(n))
       ELSE CopiesUnder(msgs, parentId, n - 1)

\* C38: a call of buildMessageTree leaves the input array and every message
\* object in it, its replies field included, as they were; every node of the
\* forest is a new object with the fields of its message, whose replies hold
\* the copies of its children and nothing the message carried.
C38_InputUntouched ==
  [][CallBuildMessageTree
       => /\ streamMessages' = streamMessages
          /\ \A ref \in DOMAIN messageTree'.nodes \cup Range(messageTree'.roots) :
               /\ ref \in {CopyRef(n) : n \in 1..Len(streamMessages)}
               /\ messageTree'.nodes[ref] =
                    [streamMessages[ref[2]] EXCEPT !.replies =
                       CopiesUnder(streamMessages, streamMessages[ref[2]].id,
                                   Len(streamMessages))]
    ]_vars

\* a forest of three nodes under one root was built from messages that all
\* carried a replies array holding an object, which is still what they carry
C38_Witness ==
  /\ Len(streamMessages) = 3
  /\ \A n \in 1..3 : streamMessages[n].replies = << <<"carried", 1>> >>
  /\ Len(messageTree.roots) = 1
  /\ Cardinality(DOMAIN messageTree.nodes) = 3
  /\ \E ref \in DOMAIN messageTree.nodes : messageTree.nodes[ref].replies = << >>

\* C39: the registry holds exactly the handles of the timers that are
\* pending: every timer set is in it until it fires or is cleared and no
\* other handle is, so that it is empty once a turn has run to completion.
C39_RegistryIsPending == activeTimeouts = timers

====
